---- MODULE Spec2Model ----
(***************************************************************************)
(* MindfulMe: a chat-driven habit tracker (src/app.py, src/activity_db.py).*)
(* Free text arrives at the /get route, chatbot_response classifies it by  *)
(* an ordered list of regular expressions and runs one handler over two    *)
(* SQLite tables, activities and habits.  TEXT values are modelled as      *)
(* sequences of one-character strings, calendar dates as proleptic         *)
(* Gregorian ordinals, and the stored dates as the ten characters that     *)
(* strftime("%Y-%m-%d") writes.                                            *)
(***************************************************************************)
EXTENDS Integers, Sequences, FiniteSets, TLC

VARIABLES activities, habits, today, response, pc, loc, unclosed

vars == <<activities, habits, today, response, pc, loc, unclosed>>

(***************************************************************************)
(* Characters and the str methods the code calls                           *)
(***************************************************************************)
Lowers == <<"a","b","c","d","e","f","g","h","i","j","k","l","m",
            "n","o","p","q","r","s","t","u","v","w","x","y","z">>

Uppers == <<"A","B","C","D","E","F","G","H","I","J","K","L","M",
            "N","O","P","Q","R","S","T","U","V","W","X","Y","Z">>

Digits == <<"0","1","2","3","4","5","6","7","8","9">>

\* What \s matches and what str.strip() removes.
WS == {" ", "\t", "\n", "\r"}

IndexIn(seq, c) ==
    IF \E i \in DOMAIN seq : seq[i] = c
    THEN CHOOSE i \in DOMAIN seq : seq[i] = c
    ELSE 0

\* The case mappings, as tables over the letters.
ToLower == [c \in {Uppers[i] : i \in DOMAIN Uppers} |-> Lowers[IndexIn(Uppers, c)]]

ToUpper == [c \in {Lowers[i] : i \in DOMAIN Lowers} |-> Uppers[IndexIn(Lowers, c)]]

IsCased(c) == c \in DOMAIN ToLower \/ c \in DOMAIN ToUpper

LowerCh(c) == IF c \in DOMAIN ToLower THEN ToLower[c] ELSE c

UpperCh(c) == IF c \in DOMAIN ToUpper THEN ToUpper[c] ELSE c

\* str.lower()
lower(s) == [i \in DOMAIN s |-> LowerCh(s[i])]

\* str.strip(): drop the leading and the trailing whitespace.
strip(s) ==
    LET keep == {i \in DOMAIN s : s[i] \notin WS}
    IN  IF keep = {} THEN <<>>
        ELSE LET a == CHOOSE i \in keep : \A j \in keep : i <= j
                 b == CHOOSE i \in keep : \A j \in keep : j <= i
             IN  SubSeq(s, a, b)

\* str.title(): a cased character is upper-cased when the character before
\* it is not cased (or it is the first), lower-cased otherwise.
title(s) ==
    [i \in DOMAIN s |->
        IF i = 1 \/ ~IsCased(s[i-1]) THEN UpperCh(s[i]) ELSE LowerCh(s[i])]

(***************************************************************************)
(* datetime: ordinals, strftime("%Y-%m-%d") and strptime(.., "%Y-%m-%d")   *)
(***************************************************************************)
IsLeap(y) == y % 4 = 0 /\ (y % 100 # 0 \/ y % 400 = 0)

DaysInMonth(y, m) ==
    IF m = 2 THEN (IF IsLeap(y) THEN 29 ELSE 28)
    ELSE IF m \in {4, 6, 9, 11} THEN 30 ELSE 31

DaysBeforeYear(y) ==
    (y - 1) * 365 + ((y - 1) \div 4) - ((y - 1) \div 100) + ((y - 1) \div 400)

RECURSIVE DaysBeforeMonth(_, _)
DaysBeforeMonth(y, m) ==
    IF m = 1 THEN 0 ELSE DaysBeforeMonth(y, m - 1) + DaysInMonth(y, m - 1)

\* date(y, m, d).toordinal()
ymd2ord(y, m, d) == DaysBeforeYear(y) + DaysBeforeMonth(y, m) + d

\* date.fromordinal(n) as <<year, month, day>>
ord2ymd(n) ==
    LET y == CHOOSE c \in (n \div 366)..(n \div 365 + 1) :
                 DaysBeforeYear(c) < n /\ n <= DaysBeforeYear(c + 1)
        r == n - DaysBeforeYear(y)
        m == CHOOSE c \in 1..12 :
                 DaysBeforeMonth(y, c) < r /\ r <= DaysBeforeMonth(y, c) + DaysInMonth(y, c)
    IN  <<y, m, r - DaysBeforeMonth(y, m)>>

\* The decimal digits of n, zero-padded to width w.
RECURSIVE Pad(_, _)
Pad(n, w) == IF w = 0 THEN <<>> ELSE Append(Pad(n \div 10, w - 1), Digits[(n % 10) + 1])

\* The number a run of digit characters spells.
RECURSIVE Num(_)
Num(s) ==
    IF s = <<>> THEN 0
    ELSE 10 * Num(SubSeq(s, 1, Len(s) - 1)) + (IndexIn(Digits, s[Len(s)]) - 1)

\* date.strftime("%Y-%m-%d")
strftime(n) ==
    LET t == ord2ymd(n) IN Pad(t[1], 4) \o <<"-">> \o Pad(t[2], 2) \o <<"-">> \o Pad(t[3], 2)

\* datetime.strptime(s, "%Y-%m-%d").date()
strptime(s) == ymd2ord(Num(SubSeq(s, 1, 4)), Num(SubSeq(s, 6, 7)), Num(SubSeq(s, 9, 10)))


\* Text comparison of the BINARY collation: by character code, then by length.
Code(c) ==
    IF c = "-" THEN 45
    ELSE IF IndexIn(Digits, c) > 0 THEN 47 + IndexIn(Digits, c)
    ELSE IF IndexIn(Uppers, c) > 0 THEN 64 + IndexIn(Uppers, c)
    ELSE IF IndexIn(Lowers, c) > 0 THEN 96 + IndexIn(Lowers, c)
    ELSE 32

TextLess(a, b) ==
    \E k \in 1..(Len(b)) :
        /\ \A j \in 1..(k - 1) : j <= Len(a) /\ a[j] = b[j]
        /\ (k > Len(a) \/ Code(a[k]) < Code(b[k]))

(***************************************************************************)
(* re.search for the patterns of chatbot_response.  A pattern is a         *)
(* sequence of literal characters and SPlus, which stands for \s+.  In     *)
(* every pattern of the code \s+ is followed by a non-space literal, so    *)
(* the greedy run of whitespace is the only way to match.                  *)
(***************************************************************************)
SPlus == "\\s+"

RECURSIVE SkipWS(_, _)
SkipWS(text, i) == IF i <= Len(text) /\ text[i] \in WS THEN SkipWS(text, i + 1) ELSE i

\* The position after a match of pat[k..] at text[i..], or 0 when there is none.
RECURSIVE MatchFrom(_, _, _, _)
MatchFrom(text, i, pat, k) ==
    IF k > Len(pat) THEN i
    ELSE IF pat[k] = SPlus
         THEN IF i <= Len(text) /\ text[i] \in WS
              THEN MatchFrom(text, SkipWS(text, i), pat, k + 1)
              ELSE 0
         ELSE IF i <= Len(text) /\ text[i] = pat[k]
              THEN MatchFrom(text, i + 1, pat, k + 1)
              ELSE 0

\* re.search(alt1|alt2|..., text) is not None
re_search(alts, text) ==
    \E pat \in alts : \E i \in 1..Len(text) : MatchFrom(text, i, pat, 1) # 0

\* The tail \s+(.+) after a prefix that ended before position e: the group
\* starts at the last position j with only whitespace in e..j-1 (at least one)
\* and a character other than a newline at j; 0 when there is none.
GroupStart(text, e) ==
    LET js == {j \in (e + 1)..Len(text) :
                  (\A k \in e..(j - 1) : text[k] \in WS) /\ text[j] # "\n"}
    IN  IF js = {} THEN 0 ELSE CHOOSE j \in js : \A x \in js : x <= j

\* The positions where prefix\s+(.+) matches.
GroupSites(pre, text) ==
    {i \in 1..Len(text) :
        MatchFrom(text, i, pre, 1) # 0 /\ GroupStart(text, MatchFrom(text, i, pre, 1)) # 0}

\* re.search(prefix\s+(.+), text).group(1): the leftmost match, the group
\* running to the end of its line (. matches no newline).
re_group(pre, text) ==
    LET sites == GroupSites(pre, text)
        i == CHOOSE x \in sites : \A y \in sites : x <= y
        j == GroupStart(text, MatchFrom(text, i, pre, 1))
        ends == {e \in j..Len(text) : \A k \in j..e : text[k] # "\n"}
    IN  SubSeq(text, j, CHOOSE e \in ends : \A x \in ends : x <= e)

re_export == {<<"e","x","p","o","r","t">>, <<"d","o","w","n","l","o","a","d",SPlus,"d","a","t","a">>, <<"s","a","v","e",SPlus,"l","o","g","s">>}

re_log == <<"l","o","g">>

re_add_habit == <<"a","d","d",SPlus,"h","a","b","i","t">>

re_missed == {<<"c","h","e","c","k",SPlus,"m","i","s","s","e","d">>, <<"a","n","a","l","y","z","e">>, <<"r","e","p","o","r","t">>, <<"s","h","o","w",SPlus,"m","i","s","s","e","d">>}

re_show == {<<"s","h","o","w",SPlus,"h","a","b","i","t","s">>, <<"w","h","a","t",SPlus,"a","r","e",SPlus,"m","y",SPlus,"h","a","b","i","t","s">>, <<"s","h","o","w",SPlus,"s","t","r","e","a","k","s">>}

re_greeting == {<<"h","i">>, <<"h","e","l","l","o">>, <<"h","e","y">>}

(***************************************************************************)
(* TEXT constants of the code                                              *)
(***************************************************************************)
GENERAL == <<"g","e","n","e","r","a","l">>

COMPLETED == <<"c","o","m","p","l","e","t","e","d">>

DAILY == <<"d","a","i","l","y">>

CSV_HEADER == <<"A","c","t","i","v","i","t","y",",","D","a","t","e",",","C","a","t","e","g","o","r","y",",","S","t","a","t","u","s","\n">>


(***************************************************************************)
(* chatbot_response, first half: the ordered pattern checks                 *)
(***************************************************************************)
\* classify with the log pattern tried before the export pattern.
classify_log_first(user_input) ==
    LET text == strip(lower(user_input))
    IN  IF GroupSites(re_log, text) # {}
        THEN [intent |-> "log", arg |-> title(strip(re_group(re_log, text)))]
        ELSE IF re_search(re_export, text) THEN [intent |-> "export", arg |-> <<>>]
        ELSE IF GroupSites(re_add_habit, text) # {}
             THEN [intent |-> "add_habit", arg |-> title(strip(re_group(re_add_habit, text)))]
        ELSE IF re_search(re_missed, text) THEN [intent |-> "missed", arg |-> <<>>]
        ELSE IF re_search(re_show, text) THEN [intent |-> "show", arg |-> <<>>]
        ELSE IF re_search(re_greeting, text) THEN [intent |-> "greeting", arg |-> <<>>]
        ELSE [intent |-> "help", arg |-> <<>>]

classify(user_input) ==
    LET text == strip(lower(user_input))
    IN  IF re_search(re_export, text) THEN [intent |-> "export", arg |-> <<>>]
        ELSE IF GroupSites(re_log, text) # {}
             THEN [intent |-> "log", arg |-> title(strip(re_group(re_log, text)))]
        ELSE IF GroupSites(re_add_habit, text) # {}
             THEN [intent |-> "add_habit", arg |-> title(strip(re_group(re_add_habit, text)))]
        ELSE IF re_search(re_missed, text) THEN [intent |-> "missed", arg |-> <<>>]
        ELSE IF re_search(re_show, text) THEN [intent |-> "show", arg |-> <<>>]
        ELSE IF re_search(re_greeting, text) THEN [intent |-> "greeting", arg |-> <<>>]
        ELSE [intent |-> "help", arg |-> <<>>]

(***************************************************************************)
(* Program constants                                                       *)
(***************************************************************************)
\* timedelta(days=365) of the backward scan
LookbackDays == 365

\* range(1, 8) of the missed-habit analysis
RangeStop == 8

\* len(name) < 3 of add_habit
MinHabitLen == 3

(***************************************************************************)
(* The requests the model sends                                            *)
(***************************************************************************)
M_log_yoga == <<"l","o","g"," ","y","o","g","a">>

M_log_run == <<" ","L","o","g"," "," ","R","U","N"," ">>

M_log_export == <<"l","o","g"," ","a","n","d"," ","e","x","p","o","r","t"," ","m","y"," ","d","a","t","a">>

M_export == <<"e","x","p","o","r","t"," ","d","a","t","a">>

M_add_yoga == <<"a","d","d"," ","h","a","b","i","t"," ","y","o","g","a">>

M_add_run == <<"A","d","d"," ","H","a","b","i","t"," ","r","u","n">>

M_add_go == <<"a","d","d"," ","h","a","b","i","t"," ","g","o">>

M_add_log == <<"a","d","d"," ","h","a","b","i","t"," ","l","o","g"," ","y","o","g","a">>

M_missed == <<"c","h","e","c","k"," ","m","i","s","s","e","d">>

M_hello_missed == <<"h","e","l","l","o"," ","s","h","o","w"," ","m","i","s","s","e","d">>

M_show == <<"s","h","o","w"," ","h","a","b","i","t","s">>

M_hi == <<"h","i">>

M_help == <<"h","e","l","p">>

M_this == <<"w","h","a","t"," ","i","s"," ","t","h","i","s">>

M_blank == <<" ">>

M_newline == <<"l","o","g"," ","y","o","g","a","\n","r","u","n">>

\* The msg form field absent (or empty).
M_absent == <<>>

Messages == {M_log_yoga, M_log_run, M_log_export, M_export, M_add_yoga, M_add_run, M_add_go, M_add_log, M_missed, M_hello_missed, M_show, M_hi, M_help, M_this, M_blank, M_newline, M_absent}

\* The messages of the intents that write, for the interleaved specification.
ConcMessages == {M_log_yoga, M_add_yoga, M_add_run, M_add_go}

\* The read-only reports, for the specification over drawn histories.
HistMessages == {M_show, M_missed}

YOGA == title(<<"y","o","g","a">>)

RUN == title(<<"r","u","n">>)

(***************************************************************************)
(* Bounds of the model                                                     *)
(***************************************************************************)
\* The clock advances at most this many days past Day0.
MaxDay == 1

\* A drawn history logs any subset of the days today-HistDays .. today.
HistDays == 8

\* A drawn run of consecutive days is at most LookbackDays + MaxOver long.
MaxOver == 2

\* The date of the first request: 2025-03-01, so that yesterday is in
\* another month and a year of history crosses 2024-02-29.
Day0 == ymd2ord(2025, 3, 1)

Workers == {"w1", "w2"}

(***************************************************************************)
(* Tables of the conversions over the values the model meets, so that each *)
(* is computed once: the dates of the model's calendar and the messages it *)
(* sends.                                                                  *)
(***************************************************************************)
Calendar == (Day0 - LookbackDays - MaxOver - RangeStop)..(Day0 + MaxDay)

strftime_table == [n \in Calendar |-> strftime(n)]

strptime_table == [s \in {strftime_table[n] : n \in Calendar} |-> strptime(s)]

classify_table == [m \in Messages |-> classify(m)]

(***************************************************************************)
(* Storage: the statements the code sends to SQLite.  A table is the       *)
(* sequence of its rows in rowid order.                                    *)
(***************************************************************************)
\* SELECT * FROM activities WHERE name = ? AND date = ?
select_name_date(acts, name, date) ==
    SelectSeq(acts, LAMBDA r : r.name = name /\ r.date = date)

\* SELECT date FROM activities WHERE name = ? ...
select_by_name(acts, name) == SelectSeq(acts, LAMBDA r : r.name = name)

\* insert_activity as an INSERT OR REPLACE keyed by name: the row of the name
\* is overwritten when there is one.
insert_activity_replace(acts, name, date) ==
    IF \E i \in DOMAIN acts : acts[i].name = name
    THEN [i \in DOMAIN acts |->
             IF acts[i].name = name THEN [acts[i] EXCEPT !.date = date] ELSE acts[i]]
    ELSE Append(acts, [id |-> Len(acts) + 1, name |-> name, date |-> date,
                       category |-> GENERAL, status |-> COMPLETED])

\* INSERT INTO activities (name, date, category, status) VALUES (?, ?, ?, ?)
\* id INTEGER PRIMARY KEY AUTOINCREMENT; no uniqueness constraint on (name, date).
insert_activity(acts, name, date) ==
    Append(acts, [id |-> Len(acts) + 1, name |-> name, date |-> date,
                  category |-> GENERAL, status |-> COMPLETED])

\* INSERT INTO habits (name, frequency) VALUES (?, ?) under name TEXT NOT NULL
\* UNIQUE: the statement fails with IntegrityError (ok = FALSE) and changes
\* nothing when a row with that name exists.
insert_habit(habs, name, frequency) ==
    IF \E i \in DOMAIN habs : habs[i].name = name
    THEN [ok |-> FALSE, habits |-> habs]
    ELSE [ok |-> TRUE,
          habits |-> Append(habs, [id |-> Len(habs) + 1, name |-> name,
                                   frequency |-> frequency])]

\* The rows of the index set T in every order.
PermsOf(acts, T) ==
    LET n == Cardinality(T)
    IN  {[k \in 1..n |-> acts[f[k]]] :
            f \in {g \in [1..n -> T] : \A a, b \in 1..n : a # b => g[a] # g[b]}}

\* The export query with its ORDER BY left out: the rows in rowid order.
select_in_rowid_order(acts) == {acts}

\* SELECT ... FROM activities ORDER BY date DESC: every result SQLite may
\* return.  The dates are compared as text; the order of rows with equal
\* dates is not defined.
RECURSIVE OrderedDesc(_, _)
OrderedDesc(acts, S) ==
    IF S = {} THEN {<<>>}
    ELSE LET top == {i \in S : \A j \in S : ~TextLess(acts[i].date, acts[j].date)}
         IN  {p \o rest : p \in PermsOf(acts, top), rest \in OrderedDesc(acts, S \ top)}

select_order_by_date_desc(acts) == OrderedDesc(acts, DOMAIN acts)

(***************************************************************************)
(* calculate_streak                                                        *)
(***************************************************************************)
\* The loop leaving at the first logged date instead of going on.
StreakLoop_once(logged_dates, now, check_date, current_streak) ==
    IF check_date \in logged_dates THEN current_streak + 1 ELSE current_streak

\* The while True loop: one call is one iteration.
RECURSIVE StreakLoop(_, _, _, _)
StreakLoop(logged_dates, now, check_date, current_streak) ==
    IF check_date \in logged_dates
    THEN StreakLoop(logged_dates, now, check_date - 1, current_streak + 1)
    ELSE IF check_date < now - LookbackDays THEN current_streak
    ELSE IF check_date < now THEN current_streak
    ELSE current_streak

\* calculate_streak with a day not logged today breaking the streak.
calculate_streak_today_breaks(acts, habit_name, now) ==
    LET logs == select_by_name(acts, title(habit_name))
        logged_dates == {strptime_table[logs[i].date] : i \in DOMAIN logs}
    IN  IF logs = <<>> \/ now \notin logged_dates THEN 0
        ELSE 1 + Cardinality({k \in 1..Cardinality(logged_dates) :
                                 \A j \in 1..k : (now - j) \in logged_dates})

\* now is datetime.now().date().  The ORDER BY of the query is dropped by the
\* set comprehension that follows it.
calculate_streak(acts, habit_name, now) ==
    LET logs == select_by_name(acts, title(habit_name))
        yesterday == now - 1
        logged_dates == {strptime_table[logs[i].date] : i \in DOMAIN logs}
    IN  IF logs = <<>> THEN 0
        ELSE IF now \in logged_dates
             THEN StreakLoop(logged_dates, now, yesterday, 1)
             ELSE StreakLoop(logged_dates, now, yesterday, 0)

(***************************************************************************)
(* export_data_to_csv and the /download_logs route                         *)
(***************************************************************************)
RECURSIVE CsvRows(_)
CsvRows(logs) ==
    IF logs = <<>> THEN <<>>
    ELSE Head(logs).name \o <<",">> \o Head(logs).date \o <<",">>
         \o Head(logs).category \o <<",">> \o Head(logs).status \o <<"\n">>
         \o CsvRows(Tail(logs))

\* logs is the result of the ORDER BY date DESC query; ok = FALSE is None.
export_data_to_csv(logs) ==
    IF logs = <<>> THEN [ok |-> FALSE, text |-> <<>>]
    ELSE [ok |-> TRUE, text |-> CSV_HEADER \o CsvRows(logs)]

download_logs(logs) ==
    LET csv_data == export_data_to_csv(logs)
    IN  IF ~csv_data.ok THEN [kind |-> "not_found_404", body |-> <<>>]
        ELSE [kind |-> "csv_file", body |-> csv_data.text]

(***************************************************************************)
(* log_activity, add_habit, show_detailed_habits, the missed analysis.     *)
(* A reply is [kind, body]: kind names the message template of the code,   *)
(* body holds what the template is filled with.                            *)
(***************************************************************************)
\* The reply after the insert: the streak is named only when it exceeds 1.
log_reply(acts, name, now) ==
    LET streak == calculate_streak(acts, name, now)
    IN  [kind |-> "logged",
         body |-> [name |-> name, alert |-> IF streak > 1 THEN <<streak>> ELSE <<>>]]

\* The duplicate check made against yesterday's date.
log_check_yesterday(acts, name, now) == select_name_date(acts, name, strftime_table[now - 1])

\* The duplicate check: the rows of name dated strftime(now).
log_check(acts, name, now) == select_name_date(acts, name, strftime_table[now])

already_logged(name) == [kind |-> "already_logged", body |-> [name |-> name]]

\* execute_query when another connection holds the write lock of the
\* database: cursor.execute raises sqlite3.OperationalError ("database is
\* locked") once the busy timeout has passed.  The only except clause of the
\* program is the one for IntegrityError in add_habit, so the error leaves
\* the handler named by raised_in and the route, and the request fails.
operational_error(raised_in) ==
    [kind |-> "operational_error", body |-> [raised_in |-> raised_in]]

\* now is the one datetime.now() of log_activity; calculate_streak reads the
\* clock again (now2).  locked: the write lock is held by an unclosed
\* connection; the SELECT of the duplicate check is not hindered by it.
log_activity(acts, name, now, now2, locked) ==
    IF log_check(acts, name, now) # <<>>
    THEN [activities |-> acts, reply |-> already_logged(name)]
    ELSE IF locked
    THEN [activities |-> acts, reply |-> operational_error("log_activity")]
    ELSE LET after == insert_activity(acts, name, strftime_table[now])
         IN  [activities |-> after, reply |-> log_reply(after, name, now2)]

\* execute_query runs conn.close() only after cursor.execute has returned: an
\* INSERT that raises IntegrityError leaves its connection open, inside the
\* transaction the sqlite3 module began for it, holding the write lock
\* (unclosed).  SQLite takes the write lock before it looks at the UNIQUE
\* index, so under locked also a name that is present gets OperationalError.
add_habit(habs, name, frequency, locked) ==
    IF Len(name) < MinHabitLen
    THEN [habits |-> habs, unclosed |-> locked,
          reply |-> [kind |-> "too_short", body |-> <<>>]]
    ELSE IF locked
    THEN [habits |-> habs, unclosed |-> TRUE, reply |-> operational_error("add_habit")]
    ELSE LET r == insert_habit(habs, name, frequency)
         IN  IF r.ok
             THEN [habits |-> r.habits, unclosed |-> FALSE,
                   reply |-> [kind |-> "habit_added", body |-> [name |-> name]]]
             ELSE [habits |-> habs, unclosed |-> TRUE,
                   reply |-> [kind |-> "habit_exists", body |-> [name |-> name]]]

\* SELECT name, frequency FROM habits: a table scan, in rowid order.
show_detailed_habits(acts, habs, now) ==
    IF habs = <<>> THEN [kind |-> "no_habits", body |-> <<>>]
    ELSE [kind |-> "habits_report",
          body |-> [i \in DOMAIN habs |->
                       LET streak == calculate_streak(acts, habs[i].name, now)
                       IN  [name |-> habs[i].name, frequency |-> habs[i].frequency,
                            streak |-> streak, fire |-> streak > 1]]]

\* The missed days over range(0, 7): today counted, the 7th day back left out.
missed_days_from_today(acts, habit_name, now) ==
    LET days == [i \in 1..(RangeStop - 1) |-> strftime_table[now - i + 1]]
    IN  SelectSeq(days, LAMBDA d : select_name_date(acts, habit_name, d) = <<>>)

\* for i in range(1, 8) for one habit: the report lines of its missed days.
missed_days(acts, habit_name, now) ==
    LET days == [i \in 1..(RangeStop - 1) |-> strftime_table[now - i]]
    IN  SelectSeq(days, LAMBDA d : select_name_date(acts, habit_name, d) = <<>>)

RECURSIVE missed_lines(_, _, _)
missed_lines(acts, hs, now) ==
    IF hs = <<>> THEN <<>>
    ELSE LET missed == missed_days(acts, Head(hs).name, now)
         IN  [k \in DOMAIN missed |-> <<Head(hs).name, missed[k]>>]
             \o missed_lines(acts, Tail(hs), now)

\* Intent 4 of chatbot_response, inlined there.
missed_analysis(acts, habs, now) ==
    LET daily == SelectSeq(habs, LAMBDA h : h.frequency = DAILY)
        report == missed_lines(acts, daily, now)
    IN  IF daily = <<>> THEN [kind |-> "no_daily_habits", body |-> <<>>]
        ELSE IF Len(report) = 0 THEN [kind |-> "all_clear", body |-> <<>>]
        ELSE [kind |-> "missed_report", body |-> report]

(***************************************************************************)
(* chatbot_response, second half: the handler of the matched pattern.      *)
(* Each result is [activities, habits, unclosed, reply]: the tables and    *)
(* the lock after the call, and what it returns.                           *)
(***************************************************************************)
dispatch(c, acts, habs, now, locked) ==
    CASE c.intent = "export" ->
           [activities |-> acts, habits |-> habs, unclosed |-> locked,
            reply |-> [kind |-> "export_request", body |-> <<>>]]
      [] c.intent = "log" ->
           log_activity(acts, c.arg, now, now, locked)
               @@ [habits |-> habs, unclosed |-> locked]
      [] c.intent = "add_habit" ->
           add_habit(habs, c.arg, DAILY, locked) @@ [activities |-> acts]
      [] c.intent = "missed" ->
           [activities |-> acts, habits |-> habs, unclosed |-> locked,
            reply |-> missed_analysis(acts, habs, now)]
      [] c.intent = "show" ->
           [activities |-> acts, habits |-> habs, unclosed |-> locked,
            reply |-> show_detailed_habits(acts, habs, now)]
      [] c.intent = "greeting" ->
           [activities |-> acts, habits |-> habs, unclosed |-> locked,
            reply |-> [kind |-> "greeting", body |-> <<>>]]
      [] OTHER ->
           [activities |-> acts, habits |-> habs, unclosed |-> locked,
            reply |-> [kind |-> "help", body |-> <<>>]]

chatbot_response(user_input, acts, habs, now, locked) ==
    dispatch(classify_table[user_input], acts, habs, now, locked)

\* The /get route on the result r of chatbot_response: the export code
\* becomes the trigger for the client.
route_reply(r) ==
    IF r.reply.kind = "export_request"
    THEN [r EXCEPT !.reply = [kind |-> "export_trigger", body |-> <<>>]]
    ELSE r

\* The /get route: msg is the form field, <<>> when absent or empty.
get_bot_response(msg, acts, habs, now, locked) ==
    IF msg = <<>>
    THEN [activities |-> acts, habits |-> habs, unclosed |-> locked,
          reply |-> [kind |-> "no_message", body |-> <<>>]]
    ELSE route_reply(chatbot_response(msg, acts, habs, now, locked))

(***************************************************************************)
(* State                                                                   *)
(*   activities, habits  the two tables, in rowid order                    *)
(*   today               datetime.now().date() as an ordinal               *)
(*   response            the reply sent by the latest step: op names the   *)
(*                       route, msg the text received; NoReply when the    *)
(*                       step completed no request                         *)
(*   pc, loc             per worker of the interleaved specification: its  *)
(*                       position in log_activity and that call's locals   *)
(*   unclosed            a connection that execute_query opened and did    *)
(*                       not close is still alive, inside its transaction: *)
(*                       it holds the write lock of the database file      *)
(***************************************************************************)
NoReply == [op |-> "none", msg |-> <<>>, kind |-> "none", body |-> <<>>]

NoLocals == [name |-> <<>>, date |-> <<>>]

Idle == [w \in Workers |-> "idle"]

Init ==
    /\ activities = <<>>
    /\ habits = <<>>
    /\ today = Day0
    /\ response = NoReply
    /\ pc = Idle
    /\ loc = [w \in Workers |-> NoLocals]
    /\ unclosed = FALSE

(***************************************************************************)
(* Requests served one at a time: a step is a whole handler                *)
(***************************************************************************)
\* A request is answered: r holds the tables after it and the reply.
Serve(op, msg, r) ==
    /\ activities' = r.activities
    /\ habits' = r.habits
    /\ unclosed' = r.unclosed
    /\ response' = [op |-> op, msg |-> msg, kind |-> r.reply.kind, body |-> r.reply.body]

\* POST /get
Get(msg) ==
    /\ pc = Idle
    /\ Serve("get", msg, get_bot_response(msg, activities, habits, today, unclosed))
    /\ UNCHANGED <<today, pc, loc>>

\* GET /download_logs
Download ==
    /\ pc = Idle
    /\ \E logs \in select_order_by_date_desc(activities) :
          Serve("download", <<>>,
                [activities |-> activities, habits |-> habits, unclosed |-> unclosed,
                 reply |-> download_logs(logs)])
    /\ UNCHANGED <<today, pc, loc>>

\* Midnight.
Tick ==
    /\ today < Day0 + MaxDay
    /\ today' = today + 1
    /\ response' = NoReply
    /\ UNCHANGED <<activities, habits, pc, loc, unclosed>>

\* The interpreter finalises the connection that execute_query left open:
\* sqlite3 closes it, its transaction is rolled back and the lock released.
\* When that happens is the garbage collector's choice.
Collect ==
    /\ unclosed
    /\ unclosed' = FALSE
    /\ response' = NoReply
    /\ UNCHANGED <<activities, habits, today, pc, loc>>

Next ==
    \/ \E msg \in Messages : Get(msg)
    \/ Download
    \/ Tick
    \/ Collect

Spec == Init /\ [][Next]_vars


(***************************************************************************)
(* Requests served concurrently: a step of a worker is one statement sent  *)
(* to SQLite.  log_activity sends three: the duplicate check, the insert   *)
(* and the query of calculate_streak; it holds nothing between them.       *)
(***************************************************************************)
ConcStart(w, msg, c) ==
    IF c.intent = "log"
    THEN IF log_check(activities, c.arg, today) # <<>>
         THEN /\ Serve("get", msg, [activities |-> activities, habits |-> habits,
                                    unclosed |-> unclosed,
                                    reply |-> already_logged(c.arg)])
              /\ UNCHANGED <<today, pc, loc>>
         ELSE /\ pc' = [pc EXCEPT ![w] = "insert"]
              /\ loc' = [loc EXCEPT ![w] = [name |-> c.arg, date |-> strftime_table[today]]]
              /\ response' = NoReply
              /\ UNCHANGED <<activities, habits, today, unclosed>>
    ELSE /\ Serve("get", msg, get_bot_response(msg, activities, habits, today, unclosed))
         /\ UNCHANGED <<today, pc, loc>>

\* The request arrives; up to the first statement of its handler.
ConcBegin(w, msg) ==
    /\ pc[w] = "idle"
    /\ ConcStart(w, msg, classify_table[msg])

\* execute_query(INSERT INTO activities ...) of log_activity: the row is
\* inserted, or the statement raises under the lock and the request fails.
ConcInsert(w) ==
    /\ pc[w] = "insert"
    /\ IF unclosed
       THEN /\ response' = [op |-> "get", msg |-> <<>>] @@ operational_error("log_activity")
            /\ pc' = [pc EXCEPT ![w] = "idle"]
            /\ loc' = [loc EXCEPT ![w] = NoLocals]
            /\ UNCHANGED activities
       ELSE /\ activities' = insert_activity(activities, loc[w].name, loc[w].date)
            /\ pc' = [pc EXCEPT ![w] = "streak"]
            /\ response' = NoReply
            /\ UNCHANGED loc
    /\ UNCHANGED <<habits, today, unclosed>>

\* calculate_streak(name) of log_activity, and its return
ConcStreak(w) ==
    /\ pc[w] = "streak"
    /\ response' = [op |-> "get", msg |-> <<>>] @@ log_reply(activities, loc[w].name, today)
    /\ pc' = [pc EXCEPT ![w] = "idle"]
    /\ loc' = [loc EXCEPT ![w] = NoLocals]
    /\ UNCHANGED <<activities, habits, today, unclosed>>

NextConc ==
    \/ \E w \in Workers : \E msg \in ConcMessages : ConcBegin(w, msg)
    \/ \E w \in Workers : ConcInsert(w)
    \/ \E w \in Workers : ConcStreak(w)
    \/ Tick
    \/ Collect

SpecConc == Init /\ [][NextConc]_vars

(***************************************************************************)
(* The reports over drawn histories: the tables start as some months of    *)
(* use left them, and the read-only requests are served.                   *)
(***************************************************************************)
\* The rows of name on the day today-k, once per set among Ss that holds k.
RECURSIVE HistDay(_, _, _, _)
HistDay(acts, name, k, Ss) ==
    IF Ss = <<>> THEN acts
    ELSE HistDay(IF k \in Head(Ss) THEN insert_activity(acts, name, strftime_table[Day0 - k])
                 ELSE acts,
                 name, k, Tail(Ss))

\* Yoga logged on the days today-k, k in S, and once more on those of D (the
\* duplicates two racing requests leave), Run on those of R; oldest first.
RECURSIVE HistBuild(_, _, _, _)
HistBuild(k, S, RD, acts) ==
    IF k < 0 THEN acts
    ELSE HistBuild(k - 1, S, RD,
                   HistDay(HistDay(acts, YOGA, k, <<S, S \cap RD[2]>>), RUN, k, <<RD[1]>>))

\* Yoga logged on the n consecutive days that end a days before today.
HistRun(a, n) ==
    [i \in 1..n |-> [id |-> i, name |-> YOGA, date |-> strftime_table[Day0 - a - n + i],
                     category |-> GENERAL, status |-> COMPLETED]]

Histories ==
    {HistBuild(HistDays, S, RD, <<>>) :
        S \in SUBSET (0..HistDays),
        RD \in {<<{}, {}>>, <<{1, 3}, {}>>, <<1..(RangeStop - 1), {}>>, <<{}, {0, 1}>>}}
    \cup {HistRun(a, n) : a \in 0..2, n \in (LookbackDays - 1)..(LookbackDays + MaxOver)}

HistHabits ==
    {<<>>,
     insert_habit(<<>>, YOGA, DAILY).habits,
     insert_habit(insert_habit(<<>>, RUN, DAILY).habits, YOGA, DAILY).habits}

InitHist ==
    /\ activities \in Histories
    /\ habits \in HistHabits
    /\ today = Day0
    /\ response = NoReply
    /\ pc = Idle
    /\ loc = [w \in Workers |-> NoLocals]
    /\ unclosed = FALSE

NextHist == \E msg \in HistMessages : Get(msg)

SpecHist == InitHist /\ [][NextHist]_vars


(***************************************************************************)
(* Properties                                                              *)
(***************************************************************************)
\* The rows of activities with this name and date.
RowsOf(name, date) ==
    {i \in DOMAIN activities : activities[i].name = name /\ activities[i].date = date}

HabitNames == {habits[i].name : i \in DOMAIN habits}

IsPrefix(s, t) == Len(s) <= Len(t) /\ SubSeq(t, 1, Len(s)) = s

\* The step answered a /get request whose text is classified as intent.
Answered(intent) ==
    /\ response'.op = "get"
    /\ response'.msg # <<>>
    /\ classify_table[response'.msg].intent = intent

\* ---- C1 ----
C1_NoDuplicateRow ==
    \A i, j \in DOMAIN activities :
        (activities[i].name = activities[j].name /\ activities[i].date = activities[j].date)
            => i = j

C1_DuplicateCall ==
    (/\ Answered("log")
     /\ RowsOf(classify_table[response'.msg].arg, strftime(today)) # {})
        => /\ response'.kind = "already_logged"
           /\ response'.body.name = classify_table[response'.msg].arg
           /\ activities' = activities

\* C1: with the log_activity requests served one at a time, the activities
\* table never holds two rows with the same name and date, and a call made
\* when a row with that name and today's date exists returns the "already
\* logged" notice and leaves the table as it was.
C1_OneRowPerNameAndDay == []C1_NoDuplicateRow /\ [][C1_DuplicateCall]_vars

\* A second log of Yoga on one day was answered with the notice, one row kept.
C1_Witness ==
    /\ response.kind = "already_logged"
    /\ response.body.name = YOGA
    /\ Cardinality(RowsOf(YOGA, strftime(today))) = 1

\* ---- C2 ----
\* The workers that are past the duplicate check of a call for these locals.
PastCheck(l) == {w \in Workers : pc[w] \in {"insert", "streak"} /\ loc[w] = l}

Inserted(l) == {w \in Workers : pc[w] = "streak" /\ loc[w] = l}

\* One row of the name and date per request that has inserted.
C2_RowPerInsert ==
    \A w \in Workers :
        Cardinality(PastCheck(loc[w])) = 2
            => Cardinality(RowsOf(loc[w].name, loc[w].date)) = Cardinality(Inserted(loc[w]))

\* A request that is past the check together with the other one leaves its
\* INSERT statement with its row appended.
C2_InsertAppends ==
    \A w \in Workers :
        (pc[w] = "insert" /\ pc'[w] # "insert" /\ Cardinality(PastCheck(loc[w])) = 2)
            => /\ pc'[w] = "streak"
               /\ Len(activities') = Len(activities) + 1
               /\ activities'[Len(activities')].name = loc[w].name
               /\ activities'[Len(activities')].date = loc[w].date

\* C2: nothing is held between the duplicate check and the insert of
\* log_activity: when two requests for one name and date are both past the
\* check before either has inserted, each of them inserts, and the table holds
\* one row of that name and date per request that has inserted: two in the end.
C2_BothInsert == []C2_RowPerInsert /\ [][C2_InsertAppends]_vars

\* ---- C3 ----
C3_HabitRows ==
    /\ \A i, j \in DOMAIN habits : habits[i].name = habits[j].name => i = j
    /\ \A i \in DOMAIN habits : Len(habits[i].name) >= 3

C3_AddHabitCall ==
    Answered("add_habit") =>
        LET name == classify_table[response'.msg].arg
        IN  /\ Len(name) < 3 => response'.kind = "too_short" /\ habits' = habits
            /\ (Len(name) >= 3 /\ name \in HabitNames)
                   => response'.kind = "habit_exists" /\ habits' = habits
            /\ habits' # habits
                   => /\ Len(name) >= 3 /\ name \notin HabitNames
                      /\ habits' = Append(habits, habits'[Len(habits')])
                      /\ habits'[Len(habits')].name = name

C3_OnlyAddHabitInserts ==
    habits' # habits => Answered("add_habit") /\ response'.kind = "habit_added"

\* C3: add_habit inserts a row only for a name of at least 3 characters that no
\* habit row has; a shorter name gets the "at least 3 characters" message, a
\* name already there the "already in your list" message, and both leave the
\* habits table as it was; so the table never holds two rows of one name.
C3_AddHabitValidates ==
    []C3_HabitRows /\ [][C3_AddHabitCall /\ C3_OnlyAddHabitInserts]_vars


\* ---- C4, C5 ----
\* The days on which a row of this name is dated, by the calendar.
Logged(name) ==
    {d \in Calendar : \E i \in DOMAIN activities :
        activities[i].name = name /\ activities[i].date = strftime_table[d]}

\* The number of consecutive days of L that end at day e.
RunLen(L, e) ==
    Cardinality({k \in 1..Cardinality(L) : \A j \in 0..(k - 1) : (e - j) \in L})

Latest(D) == CHOOSE d \in D : \A x \in D : x <= d

\* The claim as the specification words it: the run that ends at today, or at
\* the most recent logged day before today.
C4_EndsAtMostRecentLoggedDay ==
    response.kind = "habits_report" =>
        \A i \in DOMAIN response.body :
            LET L == Logged(response.body[i].name)
                before == {d \in L : d < today}
            IN  response.body[i].streak =
                    IF today \in L THEN RunLen(L, today)
                    ELSE IF before = {} THEN 0
                    ELSE RunLen(L, Latest(before))

\* C4 (amended): calculate_streak returns the number of consecutive logged
\* days that end at today when today is logged, and otherwise that end at
\* yesterday: 0 when neither today nor yesterday is logged, however recent
\* the last logged day is.
C4_EndsAtTodayOrYesterday ==
    response.kind = "habits_report" =>
        \A i \in DOMAIN response.body :
            LET L == Logged(response.body[i].name)
            IN  response.body[i].streak =
                    IF today \in L THEN RunLen(L, today) ELSE RunLen(L, today - 1)

\* Today is not logged and the streak of the days up to yesterday is reported.
C4_Witness ==
    /\ response.kind = "habits_report"
    /\ \E i \in DOMAIN response.body :
          /\ today \notin Logged(response.body[i].name)
          /\ {today - 1, today - 2} \subseteq Logged(response.body[i].name)
          /\ response.body[i].streak >= 2

PatternMatches(k, text) ==
    CASE k = 1 -> re_search(re_export, text)
      [] k = 2 -> GroupSites(re_log, text) # {}
      [] k = 3 -> GroupSites(re_add_habit, text) # {}
      [] k = 4 -> re_search(re_missed, text)
      [] k = 5 -> re_search(re_show, text)
      [] k = 6 -> re_search(re_greeting, text)
      [] OTHER -> TRUE

\* The first pattern, in the order of the code, that matches each message.
FirstPattern ==
    [m \in Messages |->
        CHOOSE k \in 1..7 :
            /\ PatternMatches(k, strip(lower(m)))
            /\ \A j \in 1..(k - 1) : ~PatternMatches(j, strip(lower(m)))]

\* The replies of the handler of each pattern.
HandlerReplies ==
    <<{"export_trigger"},
      {"logged", "already_logged"},
      {"too_short", "habit_added", "habit_exists"},
      {"no_daily_habits", "all_clear", "missed_report"},
      {"no_habits", "habits_report"},
      {"greeting"},
      {"help"}>>

\* The function a failed request of each pattern raised its error in; the
\* handlers that send no INSERT raise none.
HandlerRaising == <<"", "log_activity", "add_habit", "", "", "", "">>

C6_OneHandler ==
    (response'.op = "get" /\ response'.msg # <<>>) =>
        LET k == FirstPattern[response'.msg]
        IN  /\ \/ response'.kind \in HandlerReplies[k]
               \/ /\ response'.kind = "operational_error"
                  /\ response'.body.raised_in = HandlerRaising[k]
            /\ k # 2 => activities' = activities
            /\ k # 3 => habits' = habits
            /\ response'.msg = M_log_export
                   => response'.kind = "export_trigger" /\ activities' = activities

\* C6: chatbot_response runs the handler of the first pattern, in the order
\* export, log, add-habit, missed, show, greeting, default, that matches the
\* lower-cased trimmed text, and no handler of a later pattern: "log and export
\* my data" returns the export sentinel and inserts no activity.
C6_FirstMatchWins == [][C6_OneHandler]_vars

\* "log and export my data" was answered, with the export trigger.
C6_Witness ==
    /\ response.op = "get"
    /\ response.msg = M_log_export
    /\ response.kind = "export_trigger"
    /\ PatternMatches(1, strip(lower(response.msg)))
    /\ PatternMatches(2, strip(lower(response.msg)))

\* ---- C7 ----
\* The (habit, day) pairs of the daily habits and the 7 days before today
\* that no activity row matches.
MissedPairs ==
    {<<habits[i].name, strftime(today - k)>> :
        i \in {x \in DOMAIN habits : habits[x].frequency = DAILY},
        k \in 1..7}
    \ {<<activities[i].name, activities[i].date>> : i \in DOMAIN activities}

\* C7: the missed-habit analysis reports exactly the pairs of a daily habit and
\* one of the days today-1 .. today-7 for which no activity row has that name
\* and that date, and answers "All Clear" only when there is no such pair.
C7_ReportsExactlyMissed ==
    (response.op = "get" /\ response.msg # <<>> /\ FirstPattern[response.msg] = 4) =>
        /\ response.kind = "missed_report" =>
              /\ {response.body[i] : i \in DOMAIN response.body} = MissedPairs
              /\ Len(response.body) = Cardinality(MissedPairs)
              /\ MissedPairs # {}
        /\ response.kind = "all_clear" => MissedPairs = {} /\ habits # <<>>
        /\ response.kind = "no_daily_habits" => habits = <<>>
        /\ response.kind \in {"missed_report", "all_clear", "no_daily_habits"}

\* Two habits, Run never missed, Yoga missed on some of the 7 days.
C7_Witness ==
    /\ response.kind = "missed_report"
    /\ Len(habits) = 2
    /\ Len(response.body) \in 1..6
    /\ \A i \in DOMAIN response.body : response.body[i][1] = YOGA

\* ---- C8 ----
Positions(text, c) == {i \in DOMAIN text : text[i] = c}

\* The k-th smallest element of a set of positions (0 for k = 0).
Nth(P, k) == IF k = 0 THEN 0 ELSE CHOOSE p \in P : Cardinality({q \in P : q <= p}) = k

\* The lines of a text: what each "\n" ends.
Lines(text) ==
    LET nl == Positions(text, "\n")
    IN  [k \in 1..Cardinality(nl) |-> SubSeq(text, Nth(nl, k - 1) + 1, Nth(nl, k) - 1)]

\* The Date field of a CSV line: the third field from the end.
DateField(line) ==
    LET cm == Positions(line, ",")
        n == Cardinality(cm)
    IN  SubSeq(line, Nth(cm, n - 2) + 1, Nth(cm, n - 1) - 1)

RowLine(r) == r.name \o <<",">> \o r.date \o <<",">> \o r.category \o <<",">> \o r.status

C9_StreakAtMost366 ==
    response.kind = "habits_report" =>
        \A i \in DOMAIN response.body : response.body[i].streak <= 366

\* ---- C10 ----
C10_Step ==
    /\ IsPrefix(activities, activities')
    /\ IsPrefix(habits, habits')
    /\ activities' # activities =>
          /\ Answered("log") /\ response'.kind = "logged"
          /\ Len(activities') = Len(activities) + 1
    /\ habits' # habits =>
          /\ Answered("add_habit") /\ response'.kind = "habit_added"
          /\ Len(habits') = Len(habits) + 1
    /\ (\/ response'.op = "download"
        \/ response'.kind \in {"export_trigger", "no_daily_habits", "all_clear",
                               "missed_report", "no_habits", "habits_report",
                               "greeting", "help", "no_message"})
          => activities' = activities /\ habits' = habits

\* C10: both tables are append-only: no step updates or deletes a row, activity
\* rows are added only by log_activity and habit rows only by add_habit, and
\* the export, missed, show, greeting and default intents change neither table.
C10_AppendOnly == [][C10_Step]_vars

\* A report of streaks was served over tables that hold rows, and left them.
C10_Witness ==
    /\ response.kind = "habits_report"
    /\ Len(activities) >= 2
    /\ Len(habits) >= 1
    /\ \A i \in DOMAIN activities : activities[i].id = i

====
